---- MODULE Spec2Model ----
(***************************************************************************)
(* Pronexma Protocol: the Agreement/Milestone settlement state machine of *)
(* backend/src/services/agreementService.ts (AgreementService), run       *)
(* against the durable store (Prisma) by concurrent requests.             *)
(*                                                                         *)
(* Every request is an async method; the JavaScript between two awaits is  *)
(* atomic, and each await (a store read, a store write, the peer call) is  *)
(* a point where another request may run.  A request in flight is an      *)
(* element of the bag `calls`; its pc names the store access it is         *)
(* suspended before.  The awaits on the settlement peer (shouldUseDemoMode *)
(* and the peer call) touch no store row, so they commute with every step  *)
(* of every other request and are taken in the same step as the store read *)
(* that precedes them.  One agreement is followed (operations on different *)
(* agreements touch disjoint rows).                                        *)
(*                                                                         *)
(* The specifications share the actions:  Spec runs the operations of the  *)
(* AgreementService concurrently; SpecOracle runs the OracleService's      *)
(* webhook deliveries concurrently with the creation and funding of the    *)
(* agreement; SpecFallback runs one call at a time, each call twice from   *)
(* the same store, to compare what the settlement peer's behaviour changes;*)
(* SpecHealth runs one call at a time behind shouldUseDemoMode and the     *)
(* cached health of the peer, with checkHealth callers that overlap;       *)
(* SpecVault gives every call to the PronexmaVault contract as well and    *)
(* then to the AgreementService, one call at a time; SpecRetry follows one  *)
(* requestWithRetry call of the rpc client, SpecRetryLive with the fairness *)
(* that the request timeout and the backoff timer give.                    *)
(*                                                                         *)
(* Time is counted in ticks; amounts are integers in the smallest unit.    *)
(***************************************************************************)
EXTENDS Integers, Sequences, FiniteSets, Bags, TLC

\* ---------------------------------------------------------------- bounds
\* requests that may be in flight at the same time
MaxCalls == 2
\* webhook deliveries that are recorded
MaxEvents == 2
\* last tick of the clock
MaxTime == 1
\* config.MAX_MILESTONES (default 10), scaled down
MAX_MILESTONES == 2
\* the refund timeout added to now by deposit (30 days), in ticks
TimeoutWindow == 1

\* checkHealth calls that may be waiting for their probe at the same time
MaxProbes == 2
\* the largest retry budget configured
MaxRetries == 3

\* ------------------------------------------------------ program constants
PROTOCOL_FEE_BPS == 50
BPS_DENOMINATOR == 10000
\* healthCheckInterval = 30000 ms: one tick of the clock
HealthCheckInterval == 1

\* ------------------------------------------------------------ input sets
Addrs == {"payer", "other"}
Hashes == {"h1"}
\* milestone ids a caller may name: those of a full agreement and one unknown
MilestoneIds == 1..(MAX_MILESTONES + 1)
\* timeoutAt = null
NullTime == 0 - 1

\* milestone lists a caller may submit: none, one, two, and one more than the
\* maximum; the totals are their sums
MilestoneInputs ==
  {<<>>, <<200>>, <<200, 400>>, [i \in 1..(MAX_MILESTONES + 1) |-> 200]}
Totals == {0, 200, 600, 200 * (MAX_MILESTONES + 1)}

\* ------------------------------------------------------------------ state
VARIABLES
  agr,     \* the Agreement row (exists = FALSE before it is created)
  ms,      \* its Milestone rows, by sequenceNumber
  txs,     \* its Transaction rows, in creation order
  now,     \* the clock (Date.now())
  calls,   \* the bag of requests in flight
  last,    \* the outcome of the request the last step finished, if it finished one
  events,  \* the WebhookEvent rows, in creation order
  fork,    \* the call being run twice from one store state, once per peer behaviour
  rpc,     \* the RPCClientWrapper's and the QubicRPCClient's fields
  health,  \* the bag of checkHealth calls waiting for their /status probe
  probed,  \* the times at which a /status probe was sent, in order
  vault,   \* the PronexmaVault contract's record of the agreement
  retry    \* the requestWithRetry call that is followed

vars == <<agr, ms, txs, now, calls, last, events, fork, rpc, health, probed, vault, retry>>

NoAgreement ==
  [exists |-> FALSE, onChainId |-> "null", payer |-> "payer", total |-> 0,
   locked |-> 0, released |-> 0, state |-> "CREATED", fundedAt |-> NullTime,
   timeoutAt |-> NullTime]

\* a request that is not a webhook delivery carries no payload
NoPayload == [source |-> "none", event |-> "none", evidence |-> "none", signature |-> "none"]

NewCall(op) ==
  [op |-> op, pc |-> "start", caller |-> "payer", mid |-> 0, amount |-> 0,
   hash |-> "null", total |-> 0, input |-> <<>>,
   snap |-> NoAgreement, snapMs |-> <<>>, onChainId |-> "null", allReleased |-> FALSE,
   event |-> 0, payload |-> NoPayload, seen |-> "none", res |-> "none"]

NoResult == [op |-> "none", res |-> "none"]

\* ---------------------------------------------------------- pure helpers
\* a reduce that stops after the first milestone
SumAmounts_FirstOnly(s) == IF s = <<>> THEN 0 ELSE Head(s)

RECURSIVE SumAmounts(_)
\* input.milestones.reduce((sum, m) => sum + m.amount, 0n)
SumAmounts(s) == IF s = <<>> THEN 0 ELSE Head(s) + SumAmounts(Tail(s))

\* feeAmount = (milestone.amount * BigInt(PROTOCOL_FEE_BPS)) / 10000n
FeeAmount(a) == (a * PROTOCOL_FEE_BPS) \div BPS_DENOMINATOR
\* releaseAmount = milestone.amount - feeAmount
ReleaseAmount(a) == a - FeeAmount(a)

\* RPCError(message, code, shouldFallback = true): every RPCError the client
\* constructs leaves shouldFallback at its default
ErrorCodes == {"HTTP_ERROR", "TIMEOUT", "NETWORK_ERROR"}

\* a client that gives up on a timeout instead of falling back
ShouldFallback_NotOnTimeout(code) == code # "TIMEOUT"

ShouldFallback(code) == TRUE

\* what the peer does with a request: an HTTP status, no answer before the
\* timeout aborts the fetch, or a connection that fails
PeerAnswers == {"200", "400", "500", "abort", "neterr"}

\* request(): !response.ok -> RPCError(HTTP_ERROR); AbortError -> RPCError(TIMEOUT);
\* any other error -> RPCError(NETWORK_ERROR); else {success: true, data}
Request(answer) ==
  IF answer = "200" THEN [ok |-> TRUE, code |-> "none"]
  ELSE IF answer = "abort" THEN [ok |-> FALSE, code |-> "TIMEOUT"]
  ELSE IF answer \in {"400", "500"} THEN [ok |-> FALSE, code |-> "HTTP_ERROR"]
  ELSE [ok |-> FALSE, code |-> "NETWORK_ERROR"]

\* what the peer answers to a call
PeerResults == {[ok |-> TRUE, code |-> "none"]} \cup {[ok |-> FALSE, code |-> k] : k \in ErrorCodes}

\* if (!useDemoMode && agreement.onChainId) { try { txHash = (await peer call).txHash }
\*   catch (e) { if (e instanceof RPCError && e.shouldFallback) {} else throw e } }
\* if (!txHash) txHash = simulated
PeerCall(onChainId, useDemoMode, r) ==
  IF ~useDemoMode /\ onChainId # "null"
  THEN IF r.ok THEN "real"
       ELSE IF ShouldFallback(r.code) THEN "simulated" ELSE "throw"
  ELSE "simulated"

\* the outcomes the peer step of a request can have, over every answer of
\* shouldUseDemoMode and of the peer
PeerOutcomes(onChainId) ==
  {PeerCall(onChainId, useDemoMode, r) : useDemoMode \in BOOLEAN, r \in PeerResults}

\* createAgreement: onChainId = result.agreementId | null after a fallback
\* failure | `DEMO-...` in demo mode
CreateOnChainId(useDemoMode, r) ==
  IF ~useDemoMode
  THEN IF r.ok THEN "chain"
       ELSE IF ShouldFallback(r.code) THEN "null" ELSE "throw"
  ELSE "DEMO"

CreateOutcomes == {CreateOnChainId(useDemoMode, r) : useDemoMode \in BOOLEAN, r \in PeerResults}

\* new QubicRPCClient(), new RPCClientWrapper(rpcClient, forceDemoMode) under
\* config.NETWORK_MODE; lastHealthCheck = 0 is the epoch, more than one interval
\* before any Date.now()
NetworkModes == {"LOCAL_DEV", "PUBLIC_TESTNET", "DEMO_OFFCHAIN"}
NewRpc(forceDemoMode, networkMode) ==
  [forceDemoMode |-> forceDemoMode, networkMode |-> networkMode,
   isHealthy |-> FALSE, lastHealthCheck |-> 0 - HealthCheckInterval]

\* config.RPC_RETRY_COUNT, the fixed retry budget
RetryCounts == 1..MaxRetries
\* a requestWithRetry call that has not started, in a client with this.retryCount = n
NewRetry(n) ==
  [phase |-> "idle", retryCount |-> n, attempt |-> 0, lastError |-> "null",
   tried |-> <<>>, waits |-> <<>>, result |-> "none"]

\* static PronexmaVaultState state: no agreement yet
NoVault ==
  [exists |-> FALSE, payer |-> "payer", oracleAdmin |-> "oracle", total |-> 0, locked |-> 0,
   released |-> 0, state |-> "CREATED", timeoutTick |-> 0, ms |-> <<>>]

\* no call is being run twice
NoFork ==
  [phase |-> "idle", call |-> NewCall("none"), pre |-> <<NoAgreement, <<>>, <<>>>>,
   out |-> [res |-> "none", store |-> <<NoAgreement, <<>>, <<>>>>],
   demo |-> FALSE, answer |-> "200", healthy |-> FALSE]

InFlight == BagToSet(calls)
CanStart == BagCardinality(calls) < MaxCalls

\* the request throws, or returns: it leaves the bag
Finish(k, res) ==
  /\ calls' = calls (-) SetToBag({k})
  /\ last' = [op |-> k.op, res |-> res]

\* a request that throws before its first store write was never in the bag
Throw(op, res) ==
  /\ calls' = calls
  /\ last' = [op |-> op, res |-> res]

\* the request goes on to its next store access
Goto(k, k2) ==
  /\ calls' = (calls (-) SetToBag({k})) (+) SetToBag({k2})
  /\ last' = NoResult

Begin(k) ==
  /\ calls' = calls (+) SetToBag({k})
  /\ last' = NoResult

Init ==
  /\ agr = NoAgreement
  /\ ms = <<>>
  /\ txs = <<>>
  /\ now = 0
  /\ calls = EmptyBag
  /\ last = NoResult
  /\ events = <<>>
  /\ fork = NoFork
  /\ rpc = NewRpc(TRUE, "DEMO_OFFCHAIN")
  /\ health = EmptyBag
  /\ probed = <<>>
  /\ vault = NoVault
  /\ retry = NewRetry(1)

\* ------------------------------------------------------------------ clock
Tick ==
  /\ now < MaxTime
  /\ now' = now + 1
  /\ last' = NoResult
  /\ UNCHANGED <<agr, ms, txs, calls, events, fork, rpc, health, probed, vault, retry>>

\* -------------------------------------------------------- createAgreement
\* validation, then shouldUseDemoMode and the peer's createAgreement
CreateAgreement(total, input, onChainId) ==
  /\ CanStart
  /\ ~agr.exists
  /\ \A k \in InFlight : k.op # "create"
  /\ IF SumAmounts(input) # total
     THEN Throw("create", "ValidationError")
     ELSE IF Len(input) > MAX_MILESTONES
     THEN Throw("create", "ValidationError")
     ELSE IF onChainId = "throw"
     THEN Throw("create", "PeerRejected")
     ELSE Begin([NewCall("create") EXCEPT !.pc = "persist", !.total = total,
                                          !.input = input, !.onChainId = onChainId])
  /\ UNCHANGED <<agr, ms, txs, now, events, fork, rpc, health, probed, vault, retry>>

\* prisma.agreement.create({..., lockedAmount: 0n, releasedAmount: 0n, state: CREATED,
\*   milestones: {create: input.milestones.map((m, index) => ({sequenceNumber: index + 1,
\*   amount: m.amount, state: PENDING}))}})
CreatePersist(k) ==
  /\ k.pc = "persist"
  /\ k.op = "create"
  /\ agr' = [exists |-> TRUE, onChainId |-> k.onChainId, payer |-> k.caller,
             total |-> k.total, locked |-> 0, released |-> 0,
             state |-> "CREATED", fundedAt |-> NullTime, timeoutAt |-> NullTime]
  /\ ms' = [i \in 1..Len(k.input) |->
              [amount |-> k.input[i], state |-> "PENDING", evidenceHash |-> "null",
               verificationSource |-> "manual"]]
  /\ Finish(k, "ok")
  /\ UNCHANGED <<txs, now, events, fork, rpc, health, probed, vault, retry>>

\* ---------------------------------------------------------------- deposit
\* findUnique, the checks, then shouldUseDemoMode and the peer's deposit
Deposit(amount, fromAddress, peer) ==
  /\ CanStart
  /\ IF ~agr.exists
     THEN Throw("deposit", "NotFound")
     ELSE IF agr.state # "CREATED"
     THEN Throw("deposit", "InvalidState")
     ELSE IF agr.payer # fromAddress
     THEN Throw("deposit", "Forbidden")
     ELSE IF amount # agr.total
     THEN Throw("deposit", "AmountMismatch")
     ELSE IF peer = "throw"
     THEN Throw("deposit", "PeerRejected")
     ELSE Begin([NewCall("deposit") EXCEPT !.pc = "update", !.caller = fromAddress,
                                           !.amount = amount, !.snap = agr, !.snapMs = ms])
  /\ UNCHANGED <<agr, ms, txs, now, events, fork, rpc, health, probed, vault, retry>>

\* a deposit whose timeout is the funding time itself
TimeoutAt_NoWindow(t) == t

\* timeoutAt = new Date(Date.now() + 30 * 24 * 60 * 60 * 1000)
TimeoutAt(t) == t + TimeoutWindow

\* prisma.agreement.update({state: FUNDED, lockedAmount: amount, fundedAt: now,
\*   timeoutAt: now + 30 days, transactions: {create: DEPOSIT}})
DepositUpdate(k) ==
  /\ k.pc = "update"
  /\ k.op = "deposit"
  /\ agr' = [agr EXCEPT !.state = "FUNDED", !.locked = k.amount,
                        !.fundedAt = now, !.timeoutAt = TimeoutAt(now)]
  /\ txs' = Append(txs, [type |-> "DEPOSIT", amount |-> k.amount, mid |-> 0])
  /\ Finish(k, "ok")
  /\ UNCHANGED <<ms, now, events, fork, rpc, health, probed, vault, retry>>

\* --------------------------------------------------------- verifyMilestone
\* a verifyMilestone that does not look at the milestone's state
VerifyMilestone_AnyMilestoneState(mid, evidenceHash, peer) ==
  /\ CanStart
  /\ IF ~agr.exists
     THEN Throw("verify", "NotFound")
     ELSE IF agr.state # "FUNDED" /\ agr.state # "ACTIVE"
     THEN Throw("verify", "InvalidState")
     ELSE IF mid \notin DOMAIN ms
     THEN Throw("verify", "NotFound")
     ELSE Begin([NewCall("verify") EXCEPT !.pc = "updateMilestone", !.mid = mid,
                                          !.hash = evidenceHash, !.snap = agr, !.snapMs = ms])
  /\ UNCHANGED <<agr, ms, txs, now, events, fork, rpc, health, probed, vault, retry>>

VerifyMilestone(mid, evidenceHash, peer) ==
  /\ CanStart
  /\ IF ~agr.exists
     THEN Throw("verify", "NotFound")
     ELSE IF agr.state # "FUNDED" /\ agr.state # "ACTIVE"
     THEN Throw("verify", "InvalidState")
     ELSE IF mid \notin DOMAIN ms
     THEN Throw("verify", "NotFound")
     ELSE IF ms[mid].state # "PENDING"
     THEN Throw("verify", "InvalidState")
     ELSE IF peer = "throw"
     THEN Throw("verify", "PeerRejected")
     ELSE Begin([NewCall("verify") EXCEPT !.pc = "updateMilestone", !.mid = mid,
                                          !.hash = evidenceHash, !.snap = agr, !.snapMs = ms])
  /\ UNCHANGED <<agr, ms, txs, now, events, fork, rpc, health, probed, vault, retry>>

\* prisma.milestone.update({state: VERIFIED, verifiedAt, evidenceHash}); the
\* agreement is updated next only if the agreement read at the start was FUNDED
VerifyUpdateMilestone(k) ==
  /\ k.pc = "updateMilestone"
  /\ k.op = "verify"
  /\ ms' = [ms EXCEPT ![k.mid].state = "VERIFIED", ![k.mid].evidenceHash = k.hash]
  /\ IF k.snap.state = "FUNDED"
     THEN Goto(k, [k EXCEPT !.pc = "updateAgreement"])
     ELSE Finish(k, "ok")
  /\ UNCHANGED <<agr, txs, now, events, fork, rpc, health, probed, vault, retry>>

\* prisma.agreement.update({state: ACTIVE})
VerifyUpdateAgreement(k) ==
  /\ k.pc = "updateAgreement"
  /\ k.op = "verify"
  /\ agr' = [agr EXCEPT !.state = "ACTIVE"]
  /\ Finish(k, "ok")
  /\ UNCHANGED <<ms, txs, now, events, fork, rpc, health, probed, vault, retry>>

\* -------------------------------------------------------- releaseMilestone
ReleaseMilestone(mid, peer) ==
  /\ CanStart
  /\ IF ~agr.exists
     THEN Throw("release", "NotFound")
     ELSE IF mid \notin DOMAIN ms
     THEN Throw("release", "NotFound")
     ELSE IF ms[mid].state # "VERIFIED"
     THEN Throw("release", "InvalidState")
     ELSE IF peer = "throw"
     THEN Throw("release", "PeerRejected")
     ELSE Begin([NewCall("release") EXCEPT !.pc = "updateMilestone", !.mid = mid,
                                           !.snap = agr, !.snapMs = ms])
  /\ UNCHANGED <<agr, ms, txs, now, events, fork, rpc, health, probed, vault, retry>>

\* prisma.milestone.update({state: RELEASED, releasedAt})
ReleaseUpdateMilestone(k) ==
  /\ k.pc = "updateMilestone"
  /\ k.op = "release"
  /\ ms' = [ms EXCEPT ![k.mid].state = "RELEASED"]
  /\ Goto(k, [k EXCEPT !.pc = "findMany"])
  /\ UNCHANGED <<agr, txs, now, events, fork, rpc, health, probed, vault, retry>>

\* allReleased = allMilestones.every(m => m.id === milestoneId || m.state === RELEASED)
AllReleased(rows, mid) == \A i \in DOMAIN rows : i = mid \/ rows[i].state = "RELEASED"

\* allMilestones = await prisma.milestone.findMany({agreementId})
ReleaseFindMany(k) ==
  /\ k.pc = "findMany"
  /\ k.op = "release"
  /\ Goto(k, [k EXCEPT !.pc = "updateAgreement", !.allReleased = AllReleased(ms, k.mid)])
  /\ UNCHANGED <<agr, ms, txs, now, events, fork, rpc, health, probed, vault, retry>>

\* newReleasedAmount = agreement.releasedAmount + releaseAmount
NewReleasedAmount(snap, amount) == snap.released + ReleaseAmount(amount)
\* newLockedAmount = agreement.lockedAmount - milestone.amount
NewLockedAmount(snap, amount) == snap.locked - amount
\* state: allReleased ? COMPLETED : agreement.state
NewState(snap, allReleased) == IF allReleased THEN "COMPLETED" ELSE snap.state

\* prisma.agreement.update({lockedAmount, releasedAmount, state, completedAt,
\*   transactions: {create: RELEASE}})
ReleaseUpdateAgreement(k) ==
  /\ k.pc = "updateAgreement"
  /\ k.op = "release"
  /\ agr' = [agr EXCEPT !.locked = NewLockedAmount(k.snap, k.snapMs[k.mid].amount),
                        !.released = NewReleasedAmount(k.snap, k.snapMs[k.mid].amount),
                        !.state = NewState(k.snap, k.allReleased)]
  /\ txs' = Append(txs, [type |-> "RELEASE", amount |-> ReleaseAmount(k.snapMs[k.mid].amount),
                         mid |-> k.mid])
  /\ Finish(k, "ok")
  /\ UNCHANGED <<ms, now, events, fork, rpc, health, probed, vault, retry>>

\* ----------------------------------------------------------------- refund
\* a refund that skips the timeout check
TooEarly_Never(a, t) == FALSE

\* if (agreement.timeoutAt && new Date() < agreement.timeoutAt) throw
TooEarly(a, t) == a.timeoutAt # NullTime /\ t < a.timeoutAt

Refund(fromAddress, peer) ==
  /\ CanStart
  /\ IF ~agr.exists
     THEN Throw("refund", "NotFound")
     ELSE IF agr.payer # fromAddress
     THEN Throw("refund", "Forbidden")
     ELSE IF agr.state = "COMPLETED" \/ agr.state = "REFUNDED"
     THEN Throw("refund", "InvalidState")
     ELSE IF TooEarly(agr, now)
     THEN Throw("refund", "TooEarly")
     ELSE IF peer = "throw"
     THEN Throw("refund", "PeerRejected")
     ELSE Begin([NewCall("refund") EXCEPT !.pc = "updateMany", !.caller = fromAddress,
                                          !.snap = agr, !.snapMs = ms])
  /\ UNCHANGED <<agr, ms, txs, now, events, fork, rpc, health, probed, vault, retry>>

\* prisma.milestone.updateMany({where: {state in [PENDING, VERIFIED]}, data: {state: CANCELLED}})
RefundUpdateMany(k) ==
  /\ k.pc = "updateMany"
  /\ k.op = "refund"
  /\ ms' = [i \in DOMAIN ms |->
              IF ms[i].state \in {"PENDING", "VERIFIED"}
              THEN [ms[i] EXCEPT !.state = "CANCELLED"] ELSE ms[i]]
  /\ Goto(k, [k EXCEPT !.pc = "updateAgreement"])
  /\ UNCHANGED <<agr, txs, now, events, fork, rpc, health, probed, vault, retry>>

\* refundAmount = agreement.lockedAmount;
\* prisma.agreement.update({state: REFUNDED, lockedAmount: 0n, transactions: {create: REFUND}})
RefundUpdateAgreement(k) ==
  /\ k.pc = "updateAgreement"
  /\ k.op = "refund"
  /\ agr' = [agr EXCEPT !.state = "REFUNDED", !.locked = 0]
  /\ txs' = Append(txs, [type |-> "REFUND", amount |-> k.snap.locked, mid |-> 0])
  /\ Finish(k, "ok")
  /\ UNCHANGED <<ms, now, events, fork, rpc, health, probed, vault, retry>>

\* ------------------------------------------------------ oracle: webhooks
\* config.WEBHOOK_ALLOWED_SOURCES.split(',')
AllowedSources == {"github", "gitlab", "jira", "invoice", "manual", "zapier"}

\* the deliveries followed: an admin trigger (POST .../trigger, which carries no
\* signature), a merged and an unmerged pull request signed with WEBHOOK_SECRET, a
\* delivery whose signature does not verify, and a source that is not allowed
Payloads ==
  {[source |-> "manual", event |-> "admin_trigger", evidence |-> "approved", signature |-> "none"],
   [source |-> "github", event |-> "pr_merged", evidence |-> "merged", signature |-> "valid"],
   [source |-> "github", event |-> "pr_merged", evidence |-> "open", signature |-> "valid"],
   [source |-> "github", event |-> "pr_merged", evidence |-> "merged", signature |-> "invalid"],
   [source |-> "fax", event |-> "sent", evidence |-> "page", signature |-> "none"]}

\* hashEvidence(): sha256 of the evidence fields; verifyManualEvent hashes
\* new Date().toISOString() with them, so its digest changes with the clock
ManualDigests == <<"manual@0", "manual@1", "manual@2", "manual@3">>
HashEvidence(p, t) ==
  IF p.source = "manual" THEN ManualDigests[t + 1] ELSE "github_pr"

Rejected(reason) == [accepted |-> FALSE, reason |-> reason, evidenceHash |-> "null"]
Accepted(hash) == [accepted |-> TRUE, reason |-> "none", evidenceHash |-> hash]

\* verifyGitHubEvent / verifyManualEvent
VerifySource(p, t) ==
  IF p.source = "github"
  THEN IF p.event = "pr_merged"
       THEN IF p.evidence # "merged" THEN Rejected("PRNotMerged")
            ELSE Accepted(HashEvidence(p, t))
       ELSE Rejected("UnknownEvent")
  ELSE IF p.source \in {"manual", "zapier"}
  THEN IF p.event \in {"manual_approval", "admin_trigger"}
       THEN Accepted(HashEvidence(p, t))
       ELSE Rejected("UnknownEvent")
  ELSE Rejected("UnsupportedSource")

\* a verifier that does not look at the milestone's state
VerifyEvent_AnyState(a, rows, mid, p, t) ==
  IF ~a.exists THEN Rejected("AgreementNotFound")
  ELSE IF mid \notin DOMAIN rows THEN Rejected("MilestoneNotFound")
  ELSE VerifySource(p, t)

\* verifyEvent(): getAgreement, the milestone, its state, then the source's verifier
VerifyEvent(a, rows, mid, p, t) ==
  IF ~a.exists THEN Rejected("AgreementNotFound")
  ELSE IF mid \notin DOMAIN rows THEN Rejected("MilestoneNotFound")
  ELSE IF rows[mid].state # "PENDING" THEN Rejected("MilestoneNotPending")
  ELSE VerifySource(p, t)

\* the route: if (signature) { if (!verifySignature(...)) 401 }; then
\* processWebhook: the source check, then prisma.webhookEvent.create({status: PROCESSING})
ProcessWebhook(mid, p) ==
  /\ CanStart
  /\ Len(events) < MaxEvents
  /\ IF p.signature = "invalid"
     THEN /\ Throw("webhook", "InvalidSignature")
          /\ events' = events
     ELSE IF p.source \notin AllowedSources
     THEN /\ Throw("webhook", "UnknownSource")
          /\ events' = events
     ELSE /\ events' = Append(events, [mid |-> mid, payload |-> p, status |-> "PROCESSING",
                                       milestoneTriggered |-> FALSE, errorMessage |-> "none"])
          /\ Begin([NewCall("webhook") EXCEPT !.pc = "verifyEvent", !.mid = mid, !.payload = p,
                      !.event = Len(events) + 1,
                      !.seen = IF agr.exists /\ mid \in DOMAIN ms THEN ms[mid].state ELSE "none"])
  /\ UNCHANGED <<agr, ms, txs, now, fork, rpc, health, probed, vault, retry>>

\* result = await this.verifyEvent(payload)
WebhookVerifyEvent(k) ==
  /\ k.pc = "verifyEvent"
  /\ k.op = "webhook"
  /\ LET result == VerifyEvent(agr, ms, k.mid, k.payload, now)
     IN IF result.accepted
        THEN Goto(k, [k EXCEPT !.pc = "verifyMilestone", !.hash = result.evidenceHash])
        ELSE Goto(k, [k EXCEPT !.pc = "ignored", !.res = result.reason])
  /\ UNCHANGED <<agr, ms, txs, now, events, fork, rpc, health, probed, vault, retry>>

\* a rejection that is returned without being recorded
WebhookIgnored_NotRecorded(k) ==
  /\ k.pc = "ignored"
  /\ k.op = "webhook"
  /\ events' = events
  /\ Finish(k, "ignored")
  /\ UNCHANGED <<agr, ms, txs, now, fork, rpc, health, probed, vault, retry>>

\* prisma.webhookEvent.update({status: IGNORED, errorMessage: result.reason,
\*   milestoneTriggered: false}); return {result, milestoneTriggered: false}
WebhookIgnored(k) ==
  /\ k.pc = "ignored"
  /\ k.op = "webhook"
  /\ events' = [events EXCEPT ![k.event].status = "IGNORED", ![k.event].errorMessage = k.res,
                              ![k.event].milestoneTriggered = FALSE]
  /\ Finish(k, "ignored")
  /\ UNCHANGED <<agr, ms, txs, now, fork, rpc, health, probed, vault, retry>>

\* agreementService.verifyMilestone(...): findUnique, the checks, the peer call; a
\* throw goes to processWebhook's catch
WebhookVerifyMilestone(k, peer) ==
  /\ k.pc = "verifyMilestone"
  /\ k.op = "webhook"
  /\ IF ~agr.exists
     THEN Goto(k, [k EXCEPT !.pc = "failed", !.res = "NotFound"])
     ELSE IF agr.state # "FUNDED" /\ agr.state # "ACTIVE"
     THEN Goto(k, [k EXCEPT !.pc = "failed", !.res = "InvalidState"])
     ELSE IF k.mid \notin DOMAIN ms
     THEN Goto(k, [k EXCEPT !.pc = "failed", !.res = "NotFound"])
     ELSE IF ms[k.mid].state # "PENDING"
     THEN Goto(k, [k EXCEPT !.pc = "failed", !.res = "InvalidState"])
     ELSE IF peer = "throw"
     THEN Goto(k, [k EXCEPT !.pc = "failed", !.res = "PeerRejected"])
     ELSE Goto(k, [k EXCEPT !.pc = "updateMilestone", !.snap = agr, !.snapMs = ms])
  /\ UNCHANGED <<agr, ms, txs, now, events, fork, rpc, health, probed, vault, retry>>

\* verifyMilestone: prisma.milestone.update({state: VERIFIED, verifiedAt, evidenceHash})
WebhookUpdateMilestone(k) ==
  /\ k.pc = "updateMilestone"
  /\ k.op = "webhook"
  /\ ms' = [ms EXCEPT ![k.mid].state = "VERIFIED", ![k.mid].evidenceHash = k.hash]
  /\ IF k.snap.state = "FUNDED"
     THEN Goto(k, [k EXCEPT !.pc = "updateAgreement"])
     ELSE Goto(k, [k EXCEPT !.pc = "processed"])
  /\ UNCHANGED <<agr, txs, now, events, fork, rpc, health, probed, vault, retry>>

\* verifyMilestone: prisma.agreement.update({state: ACTIVE})
WebhookUpdateAgreement(k) ==
  /\ k.pc = "updateAgreement"
  /\ k.op = "webhook"
  /\ agr' = [agr EXCEPT !.state = "ACTIVE"]
  /\ Goto(k, [k EXCEPT !.pc = "processed"])
  /\ UNCHANGED <<ms, txs, now, events, fork, rpc, health, probed, vault, retry>>

\* prisma.webhookEvent.update({status: PROCESSED, milestoneTriggered: true})
WebhookProcessed(k) ==
  /\ k.pc = "processed"
  /\ k.op = "webhook"
  /\ events' = [events EXCEPT ![k.event].status = "PROCESSED",
                              ![k.event].milestoneTriggered = TRUE]
  /\ Finish(k, "ok")
  /\ UNCHANGED <<agr, ms, txs, now, fork, rpc, health, probed, vault, retry>>

\* catch: prisma.webhookEvent.update({status: FAILED, errorMessage}); throw error
WebhookFailed(k) ==
  /\ k.pc = "failed"
  /\ k.op = "webhook"
  /\ events' = [events EXCEPT ![k.event].status = "FAILED", ![k.event].errorMessage = k.res]
  /\ Finish(k, k.res)
  /\ UNCHANGED <<agr, ms, txs, now, fork, rpc, health, probed, vault, retry>>

\* ------------------------------------------- one call, two peer behaviours
\* The same call is run to completion twice from the same store state: first
\* against a peer that is healthy and answers 200 (the agreement carrying the
\* id that peer gave it), then, from the saved store, under any peer behaviour.
\* Requests run one at a time here.
Store == <<agr, ms, txs>>

\* what a caller can tell of the store: everything but the external reference id
Persisted(store) == <<[store[1] EXCEPT !.onChainId = "any"], store[2], store[3]>>

NotStarted == calls = EmptyBag /\ last = NoResult
Done == calls = EmptyBag /\ last # NoResult

ForkCalls ==
  {[NewCall("create") EXCEPT !.total = t, !.input = i] : t \in Totals, i \in MilestoneInputs}
  \cup {[NewCall("deposit") EXCEPT !.amount = a, !.caller = f] : a \in Totals, f \in Addrs}
  \cup {[NewCall("verify") EXCEPT !.mid = m, !.hash = h] : m \in MilestoneIds, h \in Hashes}
  \cup {[NewCall("release") EXCEPT !.mid = m] : m \in MilestoneIds}
  \cup {[NewCall("refund") EXCEPT !.caller = f] : f \in Addrs}

\* shouldUseDemoMode() answers true (no peer call is made), or false and the peer
\* answers the call
PeerBehaviours ==
  {[demo |-> TRUE, answer |-> "none"]} \cup {[demo |-> FALSE, answer |-> a] : a \in PeerAnswers}

ForkCall(c) ==
  /\ fork.phase = "idle"
  /\ calls = EmptyBag
  /\ fork' = [NoFork EXCEPT !.phase = "ref", !.call = c, !.pre = Store]
  /\ agr' = IF agr.exists THEN [agr EXCEPT !.onChainId = "chain"] ELSE agr
  /\ last' = NoResult
  /\ UNCHANGED <<ms, txs, now, calls, events, rpc, health, probed, vault, retry>>

ForkReplay(b) ==
  /\ fork.phase = "ref"
  /\ Done
  /\ fork' = [fork EXCEPT !.phase = "test", !.demo = b.demo, !.answer = b.answer,
                          !.out = [res |-> last.res, store |-> Persisted(Store)]]
  /\ agr' = fork.pre[1]
  /\ ms' = fork.pre[2]
  /\ txs' = fork.pre[3]
  /\ last' = NoResult
  /\ UNCHANGED <<now, calls, events, rpc, health, probed, vault, retry>>

ForkJoin ==
  /\ fork.phase = "test"
  /\ Done
  /\ fork' = NoFork
  /\ last' = NoResult
  /\ UNCHANGED <<agr, ms, txs, now, calls, events, rpc, health, probed, vault, retry>>

\* the call of the fork starts, under the fork's peer behaviour
ForkStart(op) ==
  /\ fork.phase \in {"ref", "test"}
  /\ NotStarted
  /\ fork.call.op = op

ForkPeer == PeerCall(agr.onChainId, fork.demo, Request(fork.answer))

\* ------------------------------------------- shouldUseDemoMode, checkHealth
\* the mode is forced by the wrapper's flag only
Forced_FlagOnly(r) == r.forceDemoMode
\* if (this.forceDemoMode) return true;
\* if (config.NETWORK_MODE === NetworkMode.DEMO_OFFCHAIN) return true
Forced(r) == r.forceDemoMode \/ r.networkMode = "DEMO_OFFCHAIN"

\* a shouldUseDemoMode that does not look at what checkHealth answers
ShouldUseDemoMode_IgnoresHealth(r, isHealthy) == Forced(r)
\* shouldUseDemoMode(), isHealthy being the answer of this.rpc.checkHealth()
ShouldUseDemoMode(r, isHealthy) == IF Forced(r) THEN TRUE ELSE ~isHealthy

\* checkHealth: now - this.lastHealthCheck < this.healthCheckInterval
CacheFresh(r, t) == t - r.lastHealthCheck < HealthCheckInterval

\* what GET /status may answer: as any request, or 200 with a status that is not 'ok'
ProbeAnswers == PeerAnswers \cup {"degraded"}
\* this.isHealthy = response.success && response.data?.status === 'ok', false
\* when the request throws
ProbeHealthy(a) == IF a = "degraded" THEN FALSE ELSE Request(a).ok

\* RPCClientWrapper.checkHealth's mode
Mode(useDemoMode) == IF useDemoMode THEN "DEMO_OFFCHAIN" ELSE rpc.networkMode

\* if (!useDemoMode) for createAgreement, if (!useDemoMode && agreement.onChainId)
\* for the other operations: the peer is called
IssuesPeerCall(op, onChainId, useDemoMode) ==
  ~useDemoMode /\ (op = "create" \/ onChainId # "null")

\* the operation of call c, the peer step having the outcome given
Run(c, peer, onChainId) ==
  \/ c.op = "create" /\ CreateAgreement(c.total, c.input, onChainId)
  \/ c.op = "deposit" /\ Deposit(c.amount, c.caller, peer)
  \/ c.op = "verify" /\ VerifyMilestone(c.mid, c.hash, peer)
  \/ c.op = "release" /\ ReleaseMilestone(c.mid, peer)
  \/ c.op = "refund" /\ Refund(c.caller, peer)

\* the checks that come before shouldUseDemoMode let call c through
Passes(c) == ENABLED (Run(c, "simulated", "DEMO") /\ calls' # calls)

EngineIdle == fork.phase = "idle" /\ calls = EmptyBag

\* a call that fails its checks throws before it asks for the mode
EngineRefused(c) ==
  /\ EngineIdle
  /\ ~Passes(c)
  /\ Run(c, "simulated", "DEMO")

\* a call that passed its checks awaits rpcWrapper.shouldUseDemoMode(): the answer
\* is immediate when the mode is forced or the cached health is recent, and
\* otherwise checkHealth sends its probe and waits
EngineCall(c) ==
  /\ EngineIdle
  /\ Passes(c)
  /\ IF Forced(rpc) \/ CacheFresh(rpc, now)
     THEN /\ fork' = [NoFork EXCEPT !.phase = "decided", !.call = c,
                                    !.healthy = rpc.isHealthy,
                                    !.demo = ShouldUseDemoMode(rpc, rpc.isHealthy)]
          /\ UNCHANGED <<health, probed, vault, retry>>
     ELSE /\ BagCardinality(health) < MaxProbes
          /\ fork' = [NoFork EXCEPT !.phase = "probing", !.call = c]
          /\ health' = health (+) SetToBag({[who |-> "engine", now |-> now]})
          /\ probed' = Append(probed, now)
  /\ last' = NoResult
  /\ UNCHANGED <<agr, ms, txs, now, calls, events, rpc, vault, retry>>

\* RPCClientWrapper.checkHealth(), called on its own
CheckHealth ==
  /\ fork.phase # "decided"
  /\ IF Forced(rpc) \/ CacheFresh(rpc, now)
     THEN /\ last' = [op |-> "health", res |-> Mode(ShouldUseDemoMode(rpc, rpc.isHealthy))]
          /\ UNCHANGED <<health, probed, vault, retry>>
     ELSE /\ BagCardinality(health) < MaxProbes
          /\ health' = health (+) SetToBag({[who |-> "status", now |-> now]})
          /\ probed' = Append(probed, now)
          /\ last' = NoResult
  /\ UNCHANGED <<agr, ms, txs, now, calls, events, fork, rpc, vault, retry>>

\* the probe of checkHealth call h is answered: isHealthy and lastHealthCheck are
\* written (lastHealthCheck with the time read before the probe was sent), and
\* shouldUseDemoMode returns to its caller
ProbeReturns(h, a) ==
  /\ fork.phase # "decided"
  /\ h \in BagToSet(health)
  /\ health' = health (-) SetToBag({h})
  /\ rpc' = [rpc EXCEPT !.isHealthy = ProbeHealthy(a), !.lastHealthCheck = h.now]
  /\ IF h.who = "engine"
     THEN /\ fork' = [fork EXCEPT !.phase = "decided", !.healthy = ProbeHealthy(a),
                                  !.demo = ShouldUseDemoMode(rpc, ProbeHealthy(a))]
          /\ last' = NoResult
     ELSE /\ fork' = fork
          /\ last' = [op |-> "health", res |-> Mode(ShouldUseDemoMode(rpc, ProbeHealthy(a)))]
  /\ UNCHANGED <<agr, ms, txs, now, calls, events, probed, vault, retry>>

\* the call goes on with the mode it was given
EngineStart == fork.phase = "decided" /\ NotStarted

\* the call has returned or thrown
EngineDone ==
  /\ fork.phase = "decided"
  /\ Done
  /\ fork' = NoFork
  /\ last' = NoResult
  /\ UNCHANGED <<agr, ms, txs, now, calls, events, rpc, health, probed, vault, retry>>

\* ------------------------------------------------ contracts/PronexmaVault.cpp
\* the contract's functions on its record v of the agreement, called by c.caller
\* at tick t: whether the call is accepted, and the record after it
Refused(v) == [ok |-> FALSE, v |-> v]
Accepts(v) == [ok |-> TRUE, v |-> v]

\* uint64_t protocolFee = releaseAmount / 200
VaultFee(a) == a \div 200

VaultCreate(v, c) ==
  IF Len(c.input) = 0 \/ Len(c.input) > MAX_MILESTONES THEN Refused(v)
  ELSE IF SumAmounts(c.input) # c.total THEN Refused(v)
  ELSE Accepts([exists |-> TRUE, payer |-> c.caller, oracleAdmin |-> "oracle",
                total |-> c.total, locked |-> 0, released |-> 0, state |-> "CREATED",
                timeoutTick |-> 0,
                ms |-> [i \in 1..Len(c.input) |-> [amount |-> c.input[i], state |-> "PENDING"]]])

VaultDeposit(v, c, t) ==
  IF ~v.exists THEN Refused(v)
  ELSE IF c.caller # v.payer THEN Refused(v)
  ELSE IF v.state # "CREATED" THEN Refused(v)
  ELSE IF c.amount # v.total THEN Refused(v)
  ELSE Accepts([v EXCEPT !.locked = c.amount, !.state = "FUNDED", !.timeoutTick = TimeoutAt(t)])

MarkMilestoneVerified(v, c) ==
  IF ~v.exists THEN Refused(v)
  ELSE IF c.caller # v.oracleAdmin THEN Refused(v)
  ELSE IF v.state # "FUNDED" /\ v.state # "ACTIVE" THEN Refused(v)
  ELSE IF c.mid = 0 \/ c.mid > Len(v.ms) THEN Refused(v)
  ELSE IF v.ms[c.mid].state # "PENDING" THEN Refused(v)
  ELSE Accepts([v EXCEPT !.ms[c.mid].state = "VERIFIED", !.state = "ACTIVE"])

VaultRelease(v, c) ==
  IF ~v.exists THEN Refused(v)
  ELSE IF c.mid = 0 \/ c.mid > Len(v.ms) THEN Refused(v)
  ELSE IF v.ms[c.mid].state # "VERIFIED" THEN Refused(v)
  ELSE LET a == v.ms[c.mid].amount
           rows == [v.ms EXCEPT ![c.mid].state = "RELEASED"]
       IN Accepts([v EXCEPT !.ms = rows,
                            !.locked = v.locked - a,
                            !.released = v.released + (a - VaultFee(a)),
                            !.state = IF \A i \in DOMAIN rows : rows[i].state = "RELEASED"
                                      THEN "COMPLETED" ELSE v.state])

VaultRefund(v, c, t) ==
  IF ~v.exists THEN Refused(v)
  ELSE IF c.caller # v.payer THEN Refused(v)
  ELSE IF t < v.timeoutTick THEN Refused(v)
  ELSE IF v.state = "COMPLETED" \/ v.state = "REFUNDED" THEN Refused(v)
  ELSE IF v.locked = 0 THEN Refused(v)
  ELSE Accepts([v EXCEPT !.locked = 0, !.state = "REFUNDED",
                         !.ms = [i \in DOMAIN v.ms |->
                                   IF v.ms[i].state \in {"PENDING", "VERIFIED"}
                                   THEN [v.ms[i] EXCEPT !.state = "CANCELLED"]
                                   ELSE v.ms[i]]])

VaultApply(v, c, t) ==
  IF c.op = "create" THEN VaultCreate(v, c)
  ELSE IF c.op = "deposit" THEN VaultDeposit(v, c, t)
  ELSE IF c.op = "verify" THEN MarkMilestoneVerified(v, c)
  ELSE IF c.op = "release" THEN VaultRelease(v, c)
  ELSE VaultRefund(v, c, t)

\* the calls given to both: those of ForkCalls, a verification being sent by the
\* oracle admin or by somebody else
VaultCalls ==
  {c \in ForkCalls : c.op # "verify"}
  \cup {[c EXCEPT !.caller = f] : c \in {k \in ForkCalls : k.op = "verify"},
                                  f \in {"oracle", "other"}}

\* call c is given to the contract; the service gets it next
VaultCall(c) ==
  /\ EngineIdle
  /\ ENABLED Run(c, "simulated", "DEMO")
  /\ LET r == VaultApply(vault, c, now)
     IN /\ vault' = r.v
        /\ fork' = [NoFork EXCEPT !.phase = "vault", !.call = c,
                                  !.out.res = IF r.ok THEN "ok" ELSE "refused"]
  /\ last' = NoResult
  /\ UNCHANGED <<agr, ms, txs, now, calls, events, rpc, health, probed, retry>>

VaultStart == fork.phase = "vault" /\ NotStarted

\* the service has returned or thrown
VaultJoin ==
  /\ fork.phase = "vault"
  /\ Done
  /\ fork' = NoFork
  /\ last' = NoResult
  /\ UNCHANGED <<agr, ms, txs, now, calls, events, rpc, health, probed, vault, retry>>

\* ------------------------------------------------------- requestWithRetry
\* a loop that goes on after every failure
MoreAttempts_Always(attempt, retryCount) == TRUE
\* if (attempt < this.retryCount) backoff; the loop goes on while attempt <= retryCount
MoreAttempts(attempt, retryCount) == attempt < retryCount

\* setTimeout(resolve, Math.pow(2, attempt) * 100)
Backoff(attempt) == (2 ^ attempt) * 100

\* callContract -> requestWithRetry: lastError = null, attempt = 1; with no attempt
\* to make the loop is skipped and 'All retry attempts failed' is thrown
RetryStart ==
  /\ retry.phase = "idle"
  /\ retry' = IF 1 <= retry.retryCount
              THEN [retry EXCEPT !.phase = "request", !.attempt = 1]
              ELSE [retry EXCEPT !.phase = "thrown", !.result = "AllFailed"]
  /\ UNCHANGED <<agr, ms, txs, now, calls, last, events, fork, rpc, health, probed, vault>>

\* return await this.request(endpoint, options), the peer answering a; a failure is
\* caught, kept as lastError, and followed by the backoff or by the end of the loop
\* and throw lastError
RetryAnswer(a) ==
  /\ retry.phase = "request"
  /\ LET r == Request(a)
     IN retry' =
          IF r.ok
          THEN [retry EXCEPT !.phase = "returned", !.result = "ok",
                             !.tried = Append(retry.tried, a)]
          ELSE IF MoreAttempts(retry.attempt, retry.retryCount)
          THEN [retry EXCEPT !.phase = "backoff", !.lastError = r.code,
                             !.tried = Append(retry.tried, a),
                             !.waits = Append(retry.waits, Backoff(retry.attempt))]
          ELSE [retry EXCEPT !.phase = "thrown", !.lastError = r.code,
                             !.result = r.code,
                             !.tried = Append(retry.tried, a)]
  /\ UNCHANGED <<agr, ms, txs, now, calls, last, events, fork, rpc, health, probed, vault>>

\* the backoff timer fires: attempt++, the next request is sent
RetryBackoffDone ==
  /\ retry.phase = "backoff"
  /\ retry.attempt <= MaxRetries
  /\ retry' = [retry EXCEPT !.phase = "request", !.attempt = retry.attempt + 1]
  /\ UNCHANGED <<agr, ms, txs, now, calls, last, events, fork, rpc, health, probed, vault>>

\* ================================================================ claims
ReleaseTxs(m) == {i \in DOMAIN txs : txs[i].type = "RELEASE" /\ txs[i].mid = m}
TxsOfType(t) == {i \in DOMAIN txs : txs[i].type = t}
Quiescent == calls = EmptyBag

RECURSIVE SumSeq(_)
SumSeq(s) == IF Len(s) = 0 THEN 0 ELSE s[Len(s)] + SumSeq(SubSeq(s, 1, Len(s) - 1))
SumRows(rows) == SumSeq([i \in DOMAIN rows |-> rows[i].amount])

\* C1: in every reachable state, under any interleaving of the operations, the
\* agreement satisfies locked + released <= total.
C1_Conservation == agr.locked + agr.released <= agr.total

\* C2: two concurrent releaseMilestone calls on the same Verified milestone make
\* exactly one Verified -> Released transition and append exactly one Release
\* transaction: a milestone that was verified once never has two Release records.
C2_ExactlyOnceRelease ==
  \A m \in DOMAIN ms : Cardinality(ReleaseTxs(m)) <= 1

\* C3: after two concurrent releaseMilestone calls on two different Verified
\* milestones have both finished, locked has decreased by the sum of both amounts
\* and released has increased by the sum of both payouts.
C3_NoLostUpdate ==
  ( /\ Quiescent
    /\ Len(ms) = 2
    /\ Cardinality(TxsOfType("DEPOSIT")) = 1
    /\ Cardinality(TxsOfType("REFUND")) = 0
    /\ Cardinality(ReleaseTxs(1)) = 1
    /\ Cardinality(ReleaseTxs(2)) = 1 )
  => /\ agr.locked = agr.total - (ms[1].amount + ms[2].amount)
     /\ agr.released = ReleaseAmount(ms[1].amount) + ReleaseAmount(ms[2].amount)

\* C4: every agreement whose state is Completed has locked = 0 and released <= total.
C4_CompletedSettled ==
  agr.state = "COMPLETED" => (agr.locked = 0 /\ agr.released <= agr.total)

\* C5: the released amount of an agreement never decreases, at any step of any
\* operation.
C5_ReleasedMonotone == [][agr'.released >= agr.released]_vars

\* C6: once the agreement is Completed or Refunded, no later step of any operation
\* changes its state, locked, released or any of its milestones.
C6_TerminalFrozen ==
  [][agr.state \in {"COMPLETED", "REFUNDED"} => (agr' = agr /\ ms' = ms)]_vars

\* C7: createAgreement rejects every input whose milestone amounts do not sum to
\* total and persists nothing; every persisted agreement has milestone amounts
\* that sum to its total, in every reachable state.
C7_MilestoneSum ==
  /\ agr.exists => SumRows(ms) = agr.total
  /\ \A k \in InFlight : k.op = "create" => SumSeq(k.input) = k.total
  /\ last = [op |-> "create", res |-> "ValidationError"] => (~agr.exists /\ ms = <<>> /\ txs = <<>>)

C7_Witness ==
  /\ agr.exists
  /\ Len(ms) = 2
  /\ ms[1].state = "RELEASED"
  /\ ms[2].state = "VERIFIED"

\* C8: createAgreement fails when the milestone list is empty or longer than the
\* configured maximum: every persisted agreement has between 1 and MAX_MILESTONES
\* milestones.
C8_MilestoneCount == agr.exists => (Len(ms) >= 1 /\ Len(ms) <= MAX_MILESTONES)

\* C9: refund is permitted only from Funded or Active: a refund call that gets
\* past its checks (and goes on to write) read the agreement in one of these states.
C9_RefundOnlyFundedOrActive ==
  \A k \in InFlight : k.op = "refund" => k.snap.state \in {"FUNDED", "ACTIVE"}

C11_RefundEffect ==
  [][(Len(txs') = Len(txs) + 1 /\ txs'[Len(txs')].type = "REFUND") =>
       /\ agr'.state = "REFUNDED"
       /\ agr'.locked = 0
       /\ agr'.released = agr.released
       /\ \A i \in DOMAIN ms' : ms'[i].state \in {"RELEASED", "CANCELLED"}
       /\ \A i \in DOMAIN ms : ms[i].state = "RELEASED" => ms'[i] = ms[i]
       /\ txs'[Len(txs')].amount = agr.locked
       /\ Cardinality({i \in DOMAIN txs' : txs'[i].type = "REFUND"}) = 1]_vars

\* C12: when the peer answers the real call of an operation with a 4xx, the
\* operation fails with PeerRejected and the store is what it was before the call.
C12_PeerRejectedIsFatal ==
  ( /\ fork.phase = "test"
    /\ Done
    /\ ~fork.demo
    /\ fork.answer = "400"
    /\ fork.out.res = "ok"
    /\ (fork.call.op = "create" \/ fork.pre[1].onChainId # "null") )
  => (last.res = "PeerRejected" /\ Store = fork.pre)

\* C13: under any fallback-eligible peer behaviour (the probe found the peer
\* unhealthy, a timeout, a connection error, a 5xx), a call returns the outcome and
\* leaves the agreement, the milestones and the transactions that the same call
\* leaves when the peer answers it successfully.
C13_FallbackEquivalence ==
  ( /\ fork.phase = "test"
    /\ Done
    /\ (fork.demo \/ fork.answer \in {"200", "500", "abort", "neterr"}) )
  => (last.res = fork.out.res /\ Persisted(Store) = fork.out.store)

C13_Witness ==
  /\ fork.phase = "test"
  /\ Done
  /\ ~fork.demo
  /\ fork.answer = "abort"
  /\ fork.call.op = "release"
  /\ fork.pre[1].onChainId = "chain"
  /\ last.res = "ok"
  /\ agr.state = "COMPLETED"
  /\ Len(ms) = 2

\* C14: when the peer's create call fails with a fallback-eligible error,
\* createAgreement succeeds and the agreement it persists has a non-null external
\* reference id.
C14_FallbackCreateHasId ==
  ( /\ fork.phase = "test"
    /\ Done
    /\ fork.call.op = "create"
    /\ ~fork.demo
    /\ fork.answer \in {"500", "abort", "neterr"}
    /\ fork.out.res = "ok" )
  => (last.res = "ok" /\ agr.exists /\ agr.onChainId # "null")

AcceptedEvents(m) ==
  {e \in DOMAIN events : events[e].mid = m /\ events[e].milestoneTriggered}

\* C15: for every milestone, at most one Evidence Event is ever recorded as
\* accepted (processed, with the milestone triggered), for any number and
\* interleaving of webhook deliveries for that milestone.
C15_AcceptedOnce == \A m \in MilestoneIds : Cardinality(AcceptedEvents(m)) <= 1

\* a delivery made when the milestone had already been verified
Late(k) == k.op = "webhook" /\ k.seen \in {"VERIFIED", "RELEASED"}
\* the step is a step of request k
Stepped(k) == CopiesIn(k, calls') < CopiesIn(k, calls)
\* the step ends a request
Ended == BagCardinality(calls') < BagCardinality(calls)

Appends(t) == Len(txs') = Len(txs) + 1 /\ txs'[Len(txs')].type = t

\* C17: a releaseMilestone that succeeds on a milestone of amount a takes
\* fee = floor(a * feeBasisPoints / 10000) and payout = a - fee, increases released
\* by exactly payout, decreases locked by exactly a and appends one Release
\* transaction of amount payout (a = 50000 at 50 bps: fee 250, payout 49750).
C17_ReleaseArithmetic ==
  [][Appends("RELEASE") =>
       LET a == ms[txs'[Len(txs')].mid].amount
           fee == (a * PROTOCOL_FEE_BPS) \div BPS_DENOMINATOR
       IN /\ txs'[Len(txs')].amount = a - fee
          /\ agr'.released = agr.released + (a - fee)
          /\ agr'.locked = agr.locked - a
          /\ (50000 * PROTOCOL_FEE_BPS) \div BPS_DENOMINATOR = 250]_vars

\* C18: once an agreement has been deposited and every milestone verified and
\* released, in any order, it is Completed with locked = 0 and released = total
\* minus the sum of the milestones' fees.
C18_AllReleasedTotals ==
  ( /\ Quiescent
    /\ agr.exists
    /\ Len(ms) >= 1
    /\ Cardinality(TxsOfType("DEPOSIT")) = 1
    /\ Cardinality(TxsOfType("REFUND")) = 0
    /\ \A i \in DOMAIN ms : ms[i].state = "RELEASED" /\ Cardinality(ReleaseTxs(i)) = 1 )
  => /\ agr.state = "COMPLETED"
     /\ agr.locked = 0
     /\ agr.released =
          agr.total - SumSeq([i \in DOMAIN ms |->
                                (ms[i].amount * PROTOCOL_FEE_BPS) \div BPS_DENOMINATOR])

\* C19: a deposit gets past its checks only on an agreement it read as Created,
\* from the stored payer and for amount = total, and an agreement is funded at
\* most once.
C19_DepositChecks ==
  /\ \A k \in InFlight : k.op = "deposit" =>
       /\ k.snap.state = "CREATED"
       /\ k.caller = k.snap.payer
       /\ k.amount = k.snap.total
  /\ Cardinality(TxsOfType("DEPOSIT")) <= 1

\* C20: a deposit that succeeds sets locked = total, state = Funded, fundedAt = now
\* and timeoutAt = now + the timeout window, leaves released and every milestone
\* unchanged and appends exactly one Deposit transaction.
C20_DepositEffect ==
  [][Appends("DEPOSIT") =>
       /\ agr'.locked = agr.total
       /\ agr'.state = "FUNDED"
       /\ agr'.fundedAt = now
       /\ agr'.timeoutAt = now + TimeoutWindow
       /\ agr'.released = agr.released
       /\ agr'.total = agr.total
       /\ ms' = ms
       /\ txs'[Len(txs')].amount = agr.total
       /\ last' = [op |-> "deposit", res |-> "ok"]]_vars

C20_Witness ==
  /\ last = [op |-> "deposit", res |-> "ok"]
  /\ agr.state = "FUNDED"
  /\ agr.total = 600
  /\ agr.locked = 600
  /\ agr.fundedAt = now
  /\ agr.timeoutAt = now + TimeoutWindow
  /\ Cardinality(TxsOfType("DEPOSIT")) = 1

C22_VerifyEffect ==
  [][\A k \in InFlight : (k.op = "verify" /\ Stepped(k)) =>
       /\ \A i \in DOMAIN ms : i # k.mid => ms'[i] = ms[i]
       /\ ms'[k.mid].amount = ms[k.mid].amount
       /\ k.pc = "updateMilestone" =>
            ms'[k.mid].state = "VERIFIED" /\ ms'[k.mid].evidenceHash = k.hash
       /\ k.pc # "updateMilestone" => ms' = ms
       /\ agr'.locked = agr.locked
       /\ agr'.released = agr.released
       /\ agr'.total = agr.total
       /\ agr'.state = IF agr.state = "FUNDED" /\ Ended THEN "ACTIVE" ELSE agr.state]_vars

\* C23: releaseMilestone releases only a milestone that is Verified at that moment:
\* the write that makes a milestone Released finds it Verified.
C23_ReleaseOnlyVerified ==
  [][\A k \in InFlight : (k.op = "release" /\ k.pc = "updateMilestone" /\ Stepped(k)) =>
       /\ ms[k.mid].state = "VERIFIED"
       /\ ms'[k.mid].state = "RELEASED"]_vars

\* C24: the agreement update of a releaseMilestone that succeeds sets the state to
\* Completed if and only if every milestone is Released after it, and otherwise
\* leaves the state as it is at that moment.
C24_CompletedIffAllReleased ==
  [][Appends("RELEASE") =>
       agr'.state = IF \A i \in DOMAIN ms' : ms'[i].state = "RELEASED"
                    THEN "COMPLETED" ELSE agr.state]_vars

\* C25: when the configuration forces simulation mode (the wrapper's flag, or
\* NETWORK_MODE = DEMO_OFFCHAIN), no health probe is ever sent, shouldUseDemoMode
\* answers true to every caller, and no operation of the engine calls the peer.
C25_ForcedSimulates ==
  (rpc.forceDemoMode \/ rpc.networkMode = "DEMO_OFFCHAIN") =>
    /\ probed = <<>>
    /\ health = EmptyBag
    /\ fork.phase # "probing"
    /\ fork.phase = "decided" =>
         fork.demo /\ ~IssuesPeerCall(fork.call.op, agr.onChainId, fork.demo)
    /\ last.op = "health" => last.res = "DEMO_OFFCHAIN"
    /\ agr.onChainId # "chain"

C25_Witness ==
  /\ rpc.forceDemoMode
  /\ rpc.networkMode = "PUBLIC_TESTNET"
  /\ fork.phase = "decided"
  /\ last = [op |-> "release", res |-> "ok"]

\* C26: when simulation is not forced and checkHealth answers unhealthy, the
\* operation is given the simulation mode, does not call the peer, and returns
\* normally; an agreement it creates gets a simulated reference.
C26_UnhealthySimulates ==
  [][(/\ ~(rpc.forceDemoMode \/ rpc.networkMode = "DEMO_OFFCHAIN")
      /\ fork'.phase = "decided"
      /\ ~fork'.healthy) =>
       /\ fork'.demo
       /\ ~IssuesPeerCall(fork'.call.op, agr'.onChainId, fork'.demo)
       /\ last' # NoResult => last' = [op |-> fork'.call.op, res |-> "ok"]
       /\ (~agr.exists /\ agr'.exists) => agr'.onChainId = "DEMO"]_vars

C26_Witness ==
  /\ ~rpc.forceDemoMode
  /\ rpc.networkMode = "PUBLIC_TESTNET"
  /\ fork.phase = "decided"
  /\ ~fork.healthy
  /\ agr.onChainId = "chain"
  /\ last = [op |-> "deposit", res |-> "ok"]

\* the step moves milestone m from Pending to Verified
Verifies(m) ==
  /\ m \in DOMAIN ms
  /\ m \in DOMAIN ms'
  /\ ms[m].state = "PENDING"
  /\ ms'[m].state = "VERIFIED"

\* C27: a milestone moves from Pending to Verified only through a call that is
\* authenticated as the oracle admin (a delivery whose signature verifies); a
\* call that is not moves no milestone.
C27_OnlyOracleAdminVerifies ==
  [][\A m \in MilestoneIds : Verifies(m) =>
       \E k \in InFlight :
         /\ Stepped(k)
         /\ k.op = "webhook"
         /\ k.mid = m
         /\ k.payload.signature = "valid"]_vars

\* the steps of delivery k after the verifier has turned its event down
TurnedDown(k) ==
  /\ k.op = "webhook"
  /\ \/ k.pc = "verifyEvent" /\ ~VerifyEvent(agr, ms, k.mid, k.payload, now).accepted
     \/ k.pc = "ignored"

C29_ConfiguredSourceOnly ==
  [][\A m \in MilestoneIds : Verifies(m) =>
       \E k \in InFlight :
         /\ Stepped(k)
         /\ k.op = "webhook"
         /\ k.mid = m
         /\ k.payload.source = ms[m].verificationSource]_vars

\* getAgreement(): prisma.agreement.findUnique({include: {milestones}}), what a
\* reader is given when it reads now
GetAgreement == [agreement |-> agr, milestones |-> ms]

\* the payouts of the milestones that rows shows as Released
RECURSIVE ReleasedPayouts(_)
ReleasedPayouts(rows) ==
  IF rows = <<>> THEN 0
  ELSE (IF Head(rows).state = "RELEASED" THEN ReleaseAmount(Head(rows).amount) ELSE 0)
       + ReleasedPayouts(Tail(rows))

RECURSIVE ReleasedAmounts(_)
ReleasedAmounts(rows) ==
  IF rows = <<>> THEN 0
  ELSE (IF Head(rows).state = "RELEASED" THEN Head(rows).amount ELSE 0)
       + ReleasedAmounts(Tail(rows))

\* C30: whenever getAgreement reads, it sees no Released milestone whose amount is
\* missing from released or still counted in locked, no Verified milestone in a
\* Funded agreement, and no Cancelled milestone in an agreement that is not
\* Refunded.
C30_NoPartialRead ==
  LET seen == GetAgreement
      a == seen.agreement
      rows == seen.milestones
  IN a.exists =>
       /\ a.released >= ReleasedPayouts(rows)
       /\ a.locked <= a.total - ReleasedAmounts(rows)
       /\ a.state = "FUNDED" => \A m \in DOMAIN rows : rows[m].state # "VERIFIED"
       /\ a.state # "REFUNDED" => \A m \in DOMAIN rows : rows[m].state # "CANCELLED"

\* C31: no two /status probes are started less than one cache interval apart,
\* however many checkHealth callers there are and however they overlap.
C31_OneProbePerInterval ==
  \A i, j \in DOMAIN probed :
    i < j => probed[j] - probed[i] >= HealthCheckInterval

\* C32: while the cached health is unhealthy and its window has not elapsed, the
\* cached health stays unhealthy and no probe is sent; a call that is answered
\* healthy outside a forced mode is routed to the peer.
C32_UnhealthyForWindow ==
  [][/\ (~rpc.isHealthy /\ CacheFresh(rpc, now) /\ CacheFresh(rpc, now')) =>
          ~rpc'.isHealthy /\ probed' = probed
     /\ (fork'.phase = "decided" /\ ~Forced(rpc') /\ fork'.healthy) => ~fork'.demo]_vars

\* C33: Released and Cancelled are terminal: no step changes the state of a
\* milestone that is Released or Cancelled.
C33_TerminalMilestones ==
  [][\A m \in DOMAIN ms :
       ms[m].state \in {"RELEASED", "CANCELLED"} => ms'[m].state = ms[m].state]_vars

\* C34: in every reachable state an agreement that has a Cancelled milestone is
\* Refunded.
C34_CancelledOnlyByRefund ==
  (\E m \in DOMAIN ms : ms[m].state = "CANCELLED") => agr.state = "REFUNDED"

\* what has left the escrow: for every Release transaction the payout and the fee
\* withheld, that is the milestone's amount, and every Refund transaction's amount
PaidOut ==
  SumSeq([i \in DOMAIN txs |->
            IF txs[i].type = "RELEASE" THEN ms[txs[i].mid].amount
            ELSE IF txs[i].type = "REFUND" THEN txs[i].amount ELSE 0])
Deposited ==
  SumSeq([i \in DOMAIN txs |-> IF txs[i].type = "DEPOSIT" THEN txs[i].amount ELSE 0])

\* C35: under any interleaving, the Release transactions' amounts plus the fees
\* withheld on them plus the Refund transactions' amounts never exceed what was
\* deposited.
C35_PayoutWithinDeposit == PaidOut <= Deposited

\* the amounts of the milestones that are Pending or Verified
RECURSIVE OpenAmounts(_)
OpenAmounts(rows) ==
  IF rows = <<>> THEN 0
  ELSE (IF Head(rows).state \in {"PENDING", "VERIFIED"} THEN Head(rows).amount ELSE 0)
       + OpenAmounts(Tail(rows))

\* C36: in every reachable state locked is the sum of the amounts of the Pending
\* and Verified milestones when the agreement is Funded or Active, and 0 when it
\* is Created, Completed or Refunded.
C36_LockedIsOpenAmounts ==
  agr.exists =>
    agr.locked = IF agr.state \in {"FUNDED", "ACTIVE"} THEN OpenAmounts(ms) ELSE 0

\* C37: in every reachable state a Funded agreement has all its milestones
\* Pending, and a Created agreement has all its milestones Pending with locked = 0
\* and released = 0.
C37_StateNeverLags ==
  /\ (agr.exists /\ agr.state \in {"FUNDED", "CREATED"}) =>
       \A m \in DOMAIN ms : ms[m].state = "PENDING"
  /\ (agr.exists /\ agr.state = "CREATED") => agr.locked = 0 /\ agr.released = 0

\* the service's store and the contract's record show the same agreement
SameAsVault ==
  /\ agr.exists = vault.exists
  /\ agr.exists =>
       /\ agr.state = vault.state
       /\ agr.locked = vault.locked
       /\ agr.released = vault.released
       /\ Len(ms) = Len(vault.ms)
       /\ \A i \in DOMAIN ms : ms[i].state = vault.ms[i].state

\* C38: for every sequence of calls with the same callers, amounts and clock, the
\* AgreementService and the PronexmaVault contract accept or refuse the same calls
\* and end with the same agreement state, locked, released and milestone states.
C38_ServiceMatchesVault ==
  (fork.phase = "vault" /\ Done) =>
    /\ (last.res = "ok") = (fork.out.res = "ok")
    /\ SameAsVault

\* C39: deposit, verifyMilestone, releaseMilestone and refund call the peer only
\* for an agreement whose createAgreement reached the peer: an agreement created
\* on the simulation path is never sent to the peer.
C39_SimulatedStaysLocal ==
  (/\ fork.phase = "decided"
   /\ fork.call.op # "create"
   /\ IssuesPeerCall(fork.call.op, agr.onChainId, fork.demo)) => agr.onChainId = "chain"

Next ==
  \/ Tick
  \/ \E t \in Totals, i \in MilestoneInputs, o \in CreateOutcomes : CreateAgreement(t, i, o)
  \/ \E k \in InFlight : CreatePersist(k)
  \/ \E a \in Totals, f \in Addrs, p \in PeerOutcomes(agr.onChainId) : Deposit(a, f, p)
  \/ \E k \in InFlight : DepositUpdate(k)
  \/ \E m \in MilestoneIds, h \in Hashes, p \in PeerOutcomes(agr.onChainId) :
       VerifyMilestone(m, h, p)
  \/ \E k \in InFlight : VerifyUpdateMilestone(k)
  \/ \E k \in InFlight : VerifyUpdateAgreement(k)
  \/ \E m \in MilestoneIds, p \in PeerOutcomes(agr.onChainId) : ReleaseMilestone(m, p)
  \/ \E k \in InFlight : ReleaseUpdateMilestone(k)
  \/ \E k \in InFlight : ReleaseFindMany(k)
  \/ \E k \in InFlight : ReleaseUpdateAgreement(k)
  \/ \E f \in Addrs, p \in PeerOutcomes(agr.onChainId) : Refund(f, p)
  \/ \E k \in InFlight : RefundUpdateMany(k)
  \/ \E k \in InFlight : RefundUpdateAgreement(k)

Spec == Init /\ [][Next]_vars

\* the oracle's deliveries, concurrent with each other and with the creation and
\* funding of the agreement they are about
NextOracle ==
  \/ Tick
  \/ \E t \in Totals, i \in MilestoneInputs, o \in CreateOutcomes : CreateAgreement(t, i, o)
  \/ \E k \in InFlight : CreatePersist(k)
  \/ \E a \in Totals, f \in Addrs, p \in PeerOutcomes(agr.onChainId) : Deposit(a, f, p)
  \/ \E k \in InFlight : DepositUpdate(k)
  \/ \E m \in MilestoneIds, p \in Payloads : ProcessWebhook(m, p)
  \/ \E k \in InFlight : WebhookVerifyEvent(k)
  \/ \E k \in InFlight : WebhookIgnored(k)
  \/ \E k \in InFlight, p \in PeerOutcomes(agr.onChainId) : WebhookVerifyMilestone(k, p)
  \/ \E k \in InFlight : WebhookUpdateMilestone(k)
  \/ \E k \in InFlight : WebhookUpdateAgreement(k)
  \/ \E k \in InFlight : WebhookProcessed(k)
  \/ \E k \in InFlight : WebhookFailed(k)

SpecOracle == Init /\ [][NextOracle]_vars

NextFallback ==
  \/ fork.phase = "idle" /\ calls = EmptyBag /\ Tick
  \/ \E c \in ForkCalls : ForkCall(c)
  \/ \E b \in PeerBehaviours : ForkReplay(b)
  \/ ForkJoin
  \/ ForkStart("create") /\ CreateAgreement(fork.call.total, fork.call.input,
                                            CreateOnChainId(fork.demo, Request(fork.answer)))
  \/ ForkStart("deposit") /\ Deposit(fork.call.amount, fork.call.caller, ForkPeer)
  \/ ForkStart("verify") /\ VerifyMilestone(fork.call.mid, fork.call.hash, ForkPeer)
  \/ ForkStart("release") /\ ReleaseMilestone(fork.call.mid, ForkPeer)
  \/ ForkStart("refund") /\ Refund(fork.call.caller, ForkPeer)
  \/ \E k \in InFlight : CreatePersist(k)
  \/ \E k \in InFlight : DepositUpdate(k)
  \/ \E k \in InFlight : VerifyUpdateMilestone(k)
  \/ \E k \in InFlight : VerifyUpdateAgreement(k)
  \/ \E k \in InFlight : ReleaseUpdateMilestone(k)
  \/ \E k \in InFlight : ReleaseFindMany(k)
  \/ \E k \in InFlight : ReleaseUpdateAgreement(k)
  \/ \E k \in InFlight : RefundUpdateMany(k)
  \/ \E k \in InFlight : RefundUpdateAgreement(k)

SpecFallback == Init /\ [][NextFallback]_vars

\* the rpc client's construction under every configuration
InitHealth ==
  /\ agr = NoAgreement
  /\ ms = <<>>
  /\ txs = <<>>
  /\ now = 0
  /\ calls = EmptyBag
  /\ last = NoResult
  /\ events = <<>>
  /\ fork = NoFork
  /\ rpc \in {NewRpc(f, m) : f \in BOOLEAN, m \in NetworkModes}
  /\ health = EmptyBag
  /\ probed = <<>>
  /\ vault = NoVault
  /\ retry = NewRetry(1)

NextHealth ==
  \/ fork.phase # "decided" /\ Tick
  \/ \E c \in ForkCalls : EngineRefused(c)
  \/ \E c \in ForkCalls : EngineCall(c)
  \/ CheckHealth
  \/ \E h \in BagToSet(health), a \in ProbeAnswers : ProbeReturns(h, a)
  \/ \E a \in PeerAnswers :
       EngineStart /\ Run(fork.call, PeerCall(agr.onChainId, fork.demo, Request(a)),
                          CreateOnChainId(fork.demo, Request(a)))
  \/ EngineDone
  \/ \E k \in InFlight : CreatePersist(k)
  \/ \E k \in InFlight : DepositUpdate(k)
  \/ \E k \in InFlight : VerifyUpdateMilestone(k)
  \/ \E k \in InFlight : VerifyUpdateAgreement(k)
  \/ \E k \in InFlight : ReleaseUpdateMilestone(k)
  \/ \E k \in InFlight : ReleaseFindMany(k)
  \/ \E k \in InFlight : ReleaseUpdateAgreement(k)
  \/ \E k \in InFlight : RefundUpdateMany(k)
  \/ \E k \in InFlight : RefundUpdateAgreement(k)

SpecHealth == InitHealth /\ [][NextHealth]_vars

NextVault ==
  \/ EngineIdle /\ Tick
  \/ \E c \in VaultCalls : VaultCall(c)
  \/ VaultStart /\ Run(fork.call, "simulated", "DEMO")
  \/ VaultJoin
  \/ \E k \in InFlight : CreatePersist(k)
  \/ \E k \in InFlight : DepositUpdate(k)
  \/ \E k \in InFlight : VerifyUpdateMilestone(k)
  \/ \E k \in InFlight : VerifyUpdateAgreement(k)
  \/ \E k \in InFlight : ReleaseUpdateMilestone(k)
  \/ \E k \in InFlight : ReleaseFindMany(k)
  \/ \E k \in InFlight : ReleaseUpdateAgreement(k)
  \/ \E k \in InFlight : RefundUpdateMany(k)
  \/ \E k \in InFlight : RefundUpdateAgreement(k)

SpecVault == Init /\ [][NextVault]_vars

\* the rpc client under every retry budget
InitRetry ==
  /\ agr = NoAgreement
  /\ ms = <<>>
  /\ txs = <<>>
  /\ now = 0
  /\ calls = EmptyBag
  /\ last = NoResult
  /\ events = <<>>
  /\ fork = NoFork
  /\ rpc = NewRpc(FALSE, "PUBLIC_TESTNET")
  /\ health = EmptyBag
  /\ probed = <<>>
  /\ vault = NoVault
  /\ retry \in {NewRetry(n) : n \in RetryCounts}

NextRetry ==
  \/ RetryStart
  \/ \E a \in PeerAnswers : RetryAnswer(a)
  \/ RetryBackoffDone

SpecRetry == InitRetry /\ [][NextRetry]_vars

\* every request is answered or aborted by its timeout, and the backoff timer fires
SpecRetryLive == SpecRetry /\ WF_vars(NextRetry)
====
